---------------------------- MODULE Spec2Model ----------------------------
(***************************************************************************)
(* The GitHub Models gateway of src/kire.js as a state machine.            *)
(*                                                                         *)
(* JavaScript strings are sequences of characters, so that split, trim,    *)
(* startsWith, join and the template literals of the source are computed   *)
(* character by character.  A character is a one-character string, or      *)
(* "U+XXXX" when it is not printable ASCII, so that the module is plain    *)
(* ASCII and reads the same in every locale.  A request is a slot of       *)
(* Requests;                                                               *)
(* its handler runs synchronously up to its first await, every await of    *)
(* callGitHubModel is a separate step taken by the remote endpoint, and    *)
(* the handler's continuation after its await is a step of the event loop. *)
(***************************************************************************)
EXTENDS Integers, Sequences, FiniteSets, TLC

VARIABLES
  req,        \* req[r]: the parameters request r arrived with (route, path and query)
  pc,         \* pc[r]: "idle" (not arrived), "awaiting" (suspended at its await), "done"
  calls,      \* calls[r]: the invocations of callGitHubModel request r made, in call order
  responses,  \* responses[r]: what the handler wrote to res, in order
  modelId,    \* the argument of a stand-alone getPublisher evaluation
  publisher   \* its result: <<>> before the evaluation, then <<label>>

vars == <<req, pc, calls, responses, modelId, publisher>>

(***************************************************************************)
(* Bounds of the model.                                                    *)
(***************************************************************************)
\* the longest comma-separated models list a compare request is given
MaxList == 2

\* the request slots, in arrival order: two requests can be in flight at once
Requests == {1, 2}

(***************************************************************************)
(* String literals of the source, character by character.                  *)
(***************************************************************************)
MODELS ==
  << <<"g", "p", "t", "-", "4", "o">>,
     <<"g", "p", "t", "-", "4", "o", "-", "m", "i", "n", "i">>,
     <<"A", "I", "2", "1", "-", "J", "a", "m", "b", "a", "-", "I", "n", "s", "t", "r", "u", "c", "t">>,
     <<"C", "o", "h", "e", "r", "e", "-", "c", "o", "m", "m", "a", "n", "d", "-", "r">>,
     <<"C", "o", "h", "e", "r", "e", "-", "c", "o", "m", "m", "a", "n", "d", "-", "r", "-", "p", "l", "u", "s">>,
     <<"C", "o", "h", "e", "r", "e", "-", "e", "m", "b", "e", "d", "-", "v", "3", "-", "e", "n", "g", "l", "i", "s", "h">>,
     <<"C", "o", "h", "e", "r", "e", "-", "e", "m", "b", "e", "d", "-", "v", "3", "-", "m", "u", "l", "t", "i", "l", "i", "n", "g", "u", "a", "l">>,
     <<"M", "e", "t", "a", "-", "L", "l", "a", "m", "a", "-", "3", "-", "7", "0", "B", "-", "I", "n", "s", "t", "r", "u", "c", "t">>,
     <<"M", "e", "t", "a", "-", "L", "l", "a", "m", "a", "-", "3", "-", "8", "B", "-", "I", "n", "s", "t", "r", "u", "c", "t">>,
     <<"M", "e", "t", "a", "-", "L", "l", "a", "m", "a", "-", "3", ".", "1", "-", "4", "0", "5", "B", "-", "I", "n", "s", "t", "r", "u", "c", "t">>,
     <<"M", "e", "t", "a", "-", "L", "l", "a", "m", "a", "-", "3", ".", "1", "-", "7", "0", "B", "-", "I", "n", "s", "t", "r", "u", "c", "t">>,
     <<"M", "e", "t", "a", "-", "L", "l", "a", "m", "a", "-", "3", ".", "1", "-", "8", "B", "-", "I", "n", "s", "t", "r", "u", "c", "t">>,
     <<"M", "e", "t", "a", "-", "L", "l", "a", "m", "a", "-", "3", ".", "2", "-", "1", "1", "B", "-", "V", "i", "s", "i", "o", "n", "-", "I", "n", "s", "t", "r", "u", "c", "t">>,
     <<"M", "e", "t", "a", "-", "L", "l", "a", "m", "a", "-", "3", ".", "2", "-", "1", "B", "-", "I", "n", "s", "t", "r", "u", "c", "t">>,
     <<"M", "e", "t", "a", "-", "L", "l", "a", "m", "a", "-", "3", ".", "2", "-", "3", "B", "-", "I", "n", "s", "t", "r", "u", "c", "t">>,
     <<"M", "e", "t", "a", "-", "L", "l", "a", "m", "a", "-", "3", ".", "2", "-", "9", "0", "B", "-", "V", "i", "s", "i", "o", "n", "-", "I", "n", "s", "t", "r", "u", "c", "t">>,
     <<"M", "i", "s", "t", "r", "a", "l", "-", "l", "a", "r", "g", "e", "-", "2", "4", "0", "7">>,
     <<"M", "i", "s", "t", "r", "a", "l", "-", "N", "e", "m", "o">>,
     <<"M", "i", "s", "t", "r", "a", "l", "-", "s", "m", "a", "l", "l">>,
     <<"P", "h", "i", "-", "3", ".", "5", "-", "m", "i", "n", "i", "-", "i", "n", "s", "t", "r", "u", "c", "t">>,
     <<"P", "h", "i", "-", "3", ".", "5", "-", "M", "o", "E", "-", "i", "n", "s", "t", "r", "u", "c", "t">>,
     <<"P", "h", "i", "-", "3", ".", "5", "-", "v", "i", "s", "i", "o", "n", "-", "i", "n", "s", "t", "r", "u", "c", "t">>,
     <<"Q", "w", "e", "n", "2", ".", "5", "-", "7", "2", "B", "-", "I", "n", "s", "t", "r", "u", "c", "t">>,
     <<"Q", "w", "e", "n", "2", ".", "5", "-", "C", "o", "d", "e", "r", "-", "3", "2", "B", "-", "I", "n", "s", "t", "r", "u", "c", "t">> >>
P_gpt == <<"g", "p", "t", "-">>
P_MetaLlama == <<"M", "e", "t", "a", "-", "L", "l", "a", "m", "a">>
P_Mistral == <<"M", "i", "s", "t", "r", "a", "l">>
P_Phi == <<"P", "h", "i", "-">>
P_Cohere == <<"C", "o", "h", "e", "r", "e">>
P_AI21 == <<"A", "I", "2", "1">>
P_Qwen == <<"Q", "w", "e", "n">>
S_ModelQuote == <<"M", "o", "d", "e", "l", " ", "'">>
S_NotFound == <<"'", " ", "n", "o", "t", " ", "f", "o", "u", "n", "d">>
S_QRequired == <<"Q", "u", "e", "r", "y", " ", "p", "a", "r", "a", "m", "e", "t", "e", "r", " ", "'", "q", "'", " ", "i", "s", " ", "r", "e", "q", "u", "i", "r", "e", "d">>
S_ChatExamplePre == <<"/", "a", "p", "i", "/", "m", "o", "d", "e", "l", "s", "/">>
S_ChatExamplePost == <<"/", "c", "h", "a", "t", "?", "q", "=", "H", "e", "l", "l", "o", " ", "w", "o", "r", "l", "d">>
S_CompareExample == <<"/", "a", "p", "i", "/", "c", "o", "m", "p", "a", "r", "e", "?", "q", "=", "H", "e", "l", "l", "o", " ", "w", "o", "r", "l", "d", "&", "m", "o", "d", "e", "l", "s", "=", "g", "p", "t", "-", "4", "o", ",", "M", "e", "t", "a", "-", "L", "l", "a", "m", "a", "-", "3", ".", "1", "-", "8", "B", "-", "I", "n", "s", "t", "r", "u", "c", "t">>
S_ModelsRequired == <<"Q", "u", "e", "r", "y", " ", "p", "a", "r", "a", "m", "e", "t", "e", "r", " ", "'", "m", "o", "d", "e", "l", "s", "'", " ", "i", "s", " ", "r", "e", "q", "u", "i", "r", "e", "d", " ", "(", "c", "o", "m", "m", "a", "-", "s", "e", "p", "a", "r", "a", "t", "e", "d", ")">>
S_InvalidModels == <<"I", "n", "v", "a", "l", "i", "d", " ", "m", "o", "d", "e", "l", "s", ":", " ">>
S_CommaSpace == <<",", " ">>
S_Hi == <<"H", "i">>
S_HiBang == <<"H", "i", "!">>
S_UnknownModel == <<"u", "n", "k", "n", "o", "w", "n", "-", "m", "o", "d", "e", "l">>
S_RateLimited == <<"r", "a", "t", "e", " ", "l", "i", "m", "i", "t", "e", "d">>
S_FetchFailed == <<"f", "e", "t", "c", "h", " ", "f", "a", "i", "l", "e", "d">>
S_NullChoices == <<"C", "a", "n", "n", "o", "t", " ", "r", "e", "a", "d", " ", "p", "r", "o", "p", "e", "r", "t", "i", "e", "s", " ", "o", "f", " ", "n", "u", "l", "l", " ", "(", "r", "e", "a", "d", "i", "n", "g", " ", "'", "c", "h", "o", "i", "c", "e", "s", "'", ")">>

(***************************************************************************)
(* JavaScript values and string primitives used by the source.             *)
(***************************************************************************)
\* a query parameter as Express parses it: absent, one string, or repeated (an array)
Undefined == [t |-> "undefined", s |-> <<>>]
StringValue(chars) == [t |-> "string", s |-> chars]
ArrayValue(chars) == [t |-> "object", s |-> chars]

\* typeof v
TypeOf(v) == v.t

\* !v : undefined and the empty string are falsy, arrays and objects are truthy
Falsy(v) == v.t = "undefined" \/ (v.t = "string" /\ v.s = <<>>)

\* String.prototype.startsWith
StartsWith(str, prefix) ==
  /\ Len(prefix) <= Len(str)
  /\ SubSeq(str, 1, Len(prefix)) = prefix

\* Array.prototype.includes on an array of strings
Includes(arr, x) == \E i \in 1..Len(arr) : arr[i] = x

\* A character is a one-character string when it is printable ASCII or one of
\* "\t", "\n", "\f", "\r"; any other character is the string "U+" followed by
\* the four hexadecimal digits of its code point ("U+00A0", "U+00E9").
\*
\* the white space String.prototype.trim removes (ECMAScript WhiteSpace and
\* LineTerminator): tab, line feed, vertical tab, form feed, carriage return,
\* space, no-break space, ogham space mark, en quad to hair space, line and
\* paragraph separator, narrow no-break space, medium mathematical space,
\* ideographic space and the byte order mark
WhiteSpace ==
  {"\t", "\n", "U+000B", "\f", "\r", " ", "U+00A0", "U+1680",
   "U+2000", "U+2001", "U+2002", "U+2003", "U+2004", "U+2005", "U+2006", "U+2007",
   "U+2008", "U+2009", "U+200A", "U+2028", "U+2029", "U+202F", "U+205F", "U+3000",
   "U+FEFF"}

RECURSIVE TrimStart(_)
TrimStart(str) ==
  IF str # <<>> /\ Head(str) \in WhiteSpace THEN TrimStart(Tail(str)) ELSE str

RECURSIVE TrimEnd(_)
TrimEnd(str) ==
  IF str # <<>> /\ str[Len(str)] \in WhiteSpace
  THEN TrimEnd(SubSeq(str, 1, Len(str) - 1))
  ELSE str

\* String.prototype.trim
Trim(str) == TrimEnd(TrimStart(str))

\* String.prototype.split(','): the pieces between the commas, empty ones kept
RECURSIVE SplitFrom(_, _, _)
SplitFrom(str, piece, pieces) ==
  IF str = <<>> THEN Append(pieces, piece)
  ELSE IF Head(str) = "," THEN SplitFrom(Tail(str), <<>>, Append(pieces, piece))
  ELSE SplitFrom(Tail(str), Append(piece, Head(str)), pieces)

SplitComma(str) == SplitFrom(str, <<>>, <<>>)

\* Array.prototype.map(m => m.trim())
MapTrim(arr) == [i \in 1..Len(arr) |-> Trim(arr[i])]

\* Array.prototype.join(sep)
RECURSIVE Join(_, _)
Join(arr, sep) ==
  IF arr = <<>> THEN <<>>
  ELSE IF Len(arr) = 1 THEN arr[1]
  ELSE arr[1] \o sep \o Join(Tail(arr), sep)

(***************************************************************************)
(* Publisher derivation (getPublisher).                                    *)
(***************************************************************************)
\* getPublisher with the Mistral rule written in lower case
getPublisherLowerCase(id) ==
  IF StartsWith(id, P_gpt) THEN "OpenAI"
  ELSE IF StartsWith(id, P_MetaLlama) THEN "Meta"
  ELSE IF StartsWith(id, <<"m", "i", "s", "t", "r", "a", "l">>) THEN "Mistral"
  ELSE IF StartsWith(id, P_Phi) THEN "Microsoft"
  ELSE IF StartsWith(id, P_Cohere) THEN "Cohere"
  ELSE IF StartsWith(id, P_AI21) THEN "AI21 Labs"
  ELSE IF StartsWith(id, P_Qwen) THEN "Qwen"
  ELSE "Unknown"

getPublisher(id) ==
  IF StartsWith(id, P_gpt) THEN "OpenAI"
  ELSE IF StartsWith(id, P_MetaLlama) THEN "Meta"
  ELSE IF StartsWith(id, P_Mistral) THEN "Mistral"
  ELSE IF StartsWith(id, P_Phi) THEN "Microsoft"
  ELSE IF StartsWith(id, P_Cohere) THEN "Cohere"
  ELSE IF StartsWith(id, P_AI21) THEN "AI21 Labs"
  ELSE IF StartsWith(id, P_Qwen) THEN "Qwen"
  ELSE "Unknown"

(***************************************************************************)
(* The outbound call helper (callGitHubModel).                             *)
(*                                                                         *)
(* An invocation is a record: model and message are its arguments, "at"    *)
(* is the await it is suspended at ("fetch", "text", "json") or how it     *)
(* ended ("returned" with ret, "threw").  responseTime exists once line 71 *)
(* has run.  Temperature and max_tokens only travel in the POST body and   *)
(* are not modelled.                                                       *)
(***************************************************************************)
\* Date.now() - startTime, as read when the code computes it
Elapsed == {0, 1}

\* line 57: the helper runs synchronously up to its await of fetch
CallGitHubModel(model, message) ==
  [model |-> model, message |-> message, at |-> "fetch"]

\* lines 75-79 and 90-94: the failure entry
FailureResult(model, errorText, responseTime) ==
  [model |-> model, error |-> errorText, responseTime |-> responseTime]

\* result.choices?.[0]?.message?.content || ""
FirstContent(json) ==
  IF json.choices # <<>> THEN json.choices[1].message.content ELSE <<>>

\* lines 83-88: the success entry
SuccessResult(model, json, responseTime) ==
  [model |-> model, response |-> FirstContent(json), usage |-> json.usage,
   responseTime |-> responseTime]

\* the helper returns a value: its promise is fulfilled
Returned(call, result) ==
  [model |-> call.model, message |-> call.message, at |-> "returned", ret |-> result]

\* an exception leaves the helper: its promise is rejected
Threw(call) ==
  [model |-> call.model, message |-> call.message, at |-> "threw"]

\* Catch without the try block: the exception leaves the helper
CatchNothing(call, message, elapsed) == Threw(call)

\* lines 89-95: whatever is thrown inside the try block is caught and returned as data
Catch(call, message, elapsed) ==
  Returned(call, FailureResult(call.model, message, elapsed))

\* lines 71-74 and 82: fetch resolved; responseTime is taken, then the body is awaited
AfterFetch(call, ok, elapsed) ==
  [model |-> call.model, message |-> call.message,
   at |-> IF ok THEN "json" ELSE "text", responseTime |-> elapsed]

\* AfterText falling through to the success entry, the error body as its response
AfterTextFallThrough(call, errorText) ==
  Returned(call, [model |-> call.model, error |-> errorText, response |-> <<>>,
                  responseTime |-> call.responseTime])

\* lines 74-79: the error body was read
AfterText(call, errorText) ==
  Returned(call, FailureResult(call.model, errorText, call.responseTime))

\* lines 82-88: the body was parsed; reading .choices of null throws a TypeError
AfterJson(call, json, elapsed) ==
  IF json.null
  THEN Catch(call, S_NullChoices, elapsed)
  ELSE Returned(call, SuccessResult(call.model, json, call.responseTime))

\* what the remote endpoint may answer
ErrorBodies == {<<>>, S_RateLimited}
Messages == {<<>>, S_FetchFailed}
Usage == [total_tokens |-> 5]
JsonBodies ==
  { [null |-> FALSE, choices |-> <<[message |-> [content |-> S_HiBang]]>>, usage |-> Usage],
    [null |-> FALSE, choices |-> <<>>, usage |-> Usage],
    [null |-> TRUE, choices |-> <<>>, usage |-> Usage] }

Pending(call) == call.at \in {"fetch", "text", "json"}

SetCall(r, i, call) ==
  /\ calls' = [calls EXCEPT ![r][i] = call]
  /\ UNCHANGED <<req, pc, responses, modelId, publisher>>

\* line 57: fetch resolves with a success (ok) or non-success status
FetchResolves(r, i) ==
  /\ i \in 1..Len(calls[r])
  /\ calls[r][i].at = "fetch"
  /\ \E ok \in BOOLEAN, e \in Elapsed : SetCall(r, i, AfterFetch(calls[r][i], ok, e))

\* line 57: fetch rejects (transport failure)
FetchRejects(r, i) ==
  /\ i \in 1..Len(calls[r])
  /\ calls[r][i].at = "fetch"
  /\ \E m \in Messages, e \in Elapsed : SetCall(r, i, Catch(calls[r][i], m, e))

\* line 74: response.text() resolves with the raw error body
TextResolves(r, i) ==
  /\ i \in 1..Len(calls[r])
  /\ calls[r][i].at = "text"
  /\ \E b \in ErrorBodies : SetCall(r, i, AfterText(calls[r][i], b))

\* line 74: response.text() rejects
TextRejects(r, i) ==
  /\ i \in 1..Len(calls[r])
  /\ calls[r][i].at = "text"
  /\ \E m \in Messages, e \in Elapsed : SetCall(r, i, Catch(calls[r][i], m, e))

\* line 82: response.json() resolves with the parsed body
JsonResolves(r, i) ==
  /\ i \in 1..Len(calls[r])
  /\ calls[r][i].at = "json"
  /\ \E j \in JsonBodies, e \in Elapsed : SetCall(r, i, AfterJson(calls[r][i], j, e))

\* line 82: response.json() rejects (the body is not JSON)
JsonRejects(r, i) ==
  /\ i \in 1..Len(calls[r])
  /\ calls[r][i].at = "json"
  /\ \E m \in Messages, e \in Elapsed : SetCall(r, i, Catch(calls[r][i], m, e))

(***************************************************************************)
(* Route handlers.                                                         *)
(***************************************************************************)
NoRequest == [route |-> "none", modelId |-> <<>>, q |-> Undefined, models |-> Undefined]

\* res.status(code).json(body)
Response(code, body) == [status |-> code, body |-> body]

\* a handler's synchronous part ends by answering, or by suspending on the calls it made
Answer(response) == [responses |-> <<response>>, calls |-> <<>>]
Suspend(made) == [responses |-> <<>>, calls |-> made]

\* QueryMissing without the typeof test
QueryMissingFalsyOnly(q) == Falsy(q)

\* lines 160 and 184: !q || typeof q !== 'string'
QueryMissing(q) == Falsy(q) \/ TypeOf(q) # "string"

\* lines 153-156
ModelNotFound(id) ==
  Response(404, [error |-> S_ModelQuote \o id \o S_NotFound, available_models |-> MODELS])

\* lines 161-164
ChatQueryRequired(id) ==
  Response(400, [error |-> S_QRequired,
                 example |-> S_ChatExamplePre \o id \o S_ChatExamplePost])

\* ChatStart with the two validations in the order the compare handler has them
ChatStartQueryFirst(id, q) ==
  IF QueryMissing(q) THEN Answer(ChatQueryRequired(id))
  ELSE IF ~Includes(MODELS, id) THEN Answer(ModelNotFound(id))
  ELSE Suspend(<<CallGitHubModel(id, q.s)>>)

\* lines 148-170: the single-chat handler up to its await
ChatStart(id, q) ==
  IF ~Includes(MODELS, id) THEN Answer(ModelNotFound(id))
  ELSE IF QueryMissing(q) THEN Answer(ChatQueryRequired(id))
  ELSE Suspend(<<CallGitHubModel(id, q.s)>>)

\* a rejected async handler: Express writes no response for it
HandlerRejected == <<>>

\* result.error as a condition: the field is there and not the empty string
Truthy(result, field) == field \in DOMAIN result /\ result[field] # <<>>

\* ChatReply without the return of line 173: line 176 runs after it
ChatReplyNoReturn(call) ==
  IF call.at = "threw" THEN HandlerRejected
  ELSE IF Truthy(call.ret, "error")
       THEN <<Response(500, call.ret), Response(200, call.ret)>>
  ELSE <<Response(200, call.ret)>>

\* lines 172-176: the single-chat handler after its await
ChatReply(call) ==
  IF call.at = "threw" THEN HandlerRejected
  ELSE IF Truthy(call.ret, "error") THEN <<Response(500, call.ret)>>
  ELSE <<Response(200, call.ret)>>

\* lines 185-188
CompareQueryRequired == Response(400, [error |-> S_QRequired, example |-> S_CompareExample])

\* lines 193-196
ModelsRequired == Response(400, [error |-> S_ModelsRequired, example |-> S_CompareExample])

\* line 199: models.split(',').map(m => m.trim())
ModelsList(models) == MapTrim(SplitComma(models))

NotInRegistry(model) == ~Includes(MODELS, model)

\* InvalidModels stopping at the first entry outside the registry
InvalidModelsFirstOnly(modelsList) ==
  IF SelectSeq(modelsList, NotInRegistry) = <<>> THEN <<>>
  ELSE <<Head(SelectSeq(modelsList, NotInRegistry))>>

\* line 202: modelsList.filter(model => !MODELS.includes(model))
InvalidModels(modelsList) == SelectSeq(modelsList, NotInRegistry)

\* lines 204-207
InvalidModelsResponse(invalidModels) ==
  Response(400, [error |-> S_InvalidModels \o Join(invalidModels, S_CommaSpace),
                 available_models |-> MODELS])

\* line 214: modelsList.map(model => callGitHubModel(model, q, temp, maxTok))
CallAll(modelsList, message) ==
  [i \in 1..Len(modelsList) |-> CallGitHubModel(modelsList[i], message)]

\* lines 181-215: the compare handler up to its await
CompareStart(q, models) ==
  IF QueryMissing(q) THEN Answer(CompareQueryRequired)
  ELSE IF Falsy(models) \/ TypeOf(models) # "string" THEN Answer(ModelsRequired)
  ELSE IF Len(InvalidModels(ModelsList(models.s))) > 0
       THEN Answer(InvalidModelsResponse(InvalidModels(ModelsList(models.s))))
  ELSE Suspend(CallAll(ModelsList(models.s), q.s))

\* line 215: Promise.all rejects with the first rejection, is fulfilled once all are
PromiseAll(promises) ==
  IF \E i \in 1..Len(promises) : promises[i].at = "threw" THEN "rejected"
  ELSE IF \A i \in 1..Len(promises) : promises[i].at = "returned" THEN "fulfilled"
  ELSE "pending"

\* CompareReply keeping only the entries that carry a response
CompareReplySuccessesOnly(promises) ==
  IF PromiseAll(promises) = "rejected" THEN HandlerRejected
  ELSE <<Response(200, [results |->
           SelectSeq([i \in 1..Len(promises) |-> promises[i].ret],
                     LAMBDA result : "response" \in DOMAIN result)])>>

\* lines 215-217: the compare handler after its await
CompareReply(promises) ==
  IF PromiseAll(promises) = "rejected" THEN HandlerRejected
  ELSE <<Response(200, [results |-> [i \in 1..Len(promises) |-> promises[i].ret]])>>

\* the event loop hands an idle slot a request; slots are taken in arrival order
Arrives(r, request, start) ==
  /\ \A earlier \in Requests : earlier < r => pc[earlier] # "idle"
  /\ req' = [req EXCEPT ![r] = request]
  /\ calls' = [calls EXCEPT ![r] = start.calls]
  /\ responses' = [responses EXCEPT ![r] = start.responses]
  /\ pc' = [pc EXCEPT ![r] = IF start.calls = <<>> THEN "done" ELSE "awaiting"]
  /\ UNCHANGED <<modelId, publisher>>

\* GET /api/models/:modelId/chat
ChatHandler(r, id, q) ==
  /\ pc[r] = "idle"
  /\ Arrives(r, [route |-> "chat", modelId |-> id, q |-> q, models |-> Undefined],
             ChatStart(id, q))

\* GET /api/compare
CompareHandler(r, q, models) ==
  /\ pc[r] = "idle"
  /\ Arrives(r, [route |-> "compare", modelId |-> <<>>, q |-> q, models |-> models],
             CompareStart(q, models))

\* AwaitedResult with result declared at module level: another request's settled
\* call, when there is one, has overwritten it
AwaitedResultShared(r) ==
  LET others == {c \in UNION {{calls[o][i] : i \in 1..Len(calls[o])} : o \in Requests \ {r}} :
                   ~Pending(c)}
  IN IF others = {} THEN calls[r][1] ELSE CHOOSE c \in others : TRUE

\* line 170: const result, local to this invocation of the handler
AwaitedResult(r) == calls[r][1]

\* line 170: the awaited call has settled and the single-chat handler resumes
ChatResume(r) ==
  /\ pc[r] = "awaiting"
  /\ req[r].route = "chat"
  /\ ~Pending(calls[r][1])
  /\ responses' = [responses EXCEPT ![r] = responses[r] \o ChatReply(AwaitedResult(r))]
  /\ pc' = [pc EXCEPT ![r] = "done"]
  /\ UNCHANGED <<req, calls, modelId, publisher>>

\* line 215: Promise.all has settled and the compare handler resumes
CompareResume(r) ==
  /\ pc[r] = "awaiting"
  /\ req[r].route = "compare"
  /\ PromiseAll(calls[r]) # "pending"
  /\ responses' = [responses EXCEPT ![r] = responses[r] \o CompareReply(calls[r])]
  /\ pc' = [pc EXCEPT ![r] = "done"]
  /\ UNCHANGED <<req, calls, modelId, publisher>>

(***************************************************************************)
(* The requests the model is given.                                        *)
(***************************************************************************)
\* the values of q: absent, ?q=, ?q=Hi, ?q=Hi&q=Hi
QValues == {Undefined, StringValue(<<>>), StringValue(S_Hi), ArrayValue(S_Hi)}

\* path identifiers: two registry entries and one outside the registry
PathIds == {MODELS[1], MODELS[19], S_UnknownModel}

\* entries of a models list: a registry entry, one padded with white space
\* (a space and a form feed before it, a no-break space, an em space and a tab
\* after it), one outside the registry and the empty entry
ListEntries ==
  {MODELS[1], <<" ", "\f">> \o MODELS[19] \o <<"U+00A0", "U+2003", "\t">>,
   S_UnknownModel, <<>>}

EntryLists(n) == UNION {[1..k -> ListEntries] : k \in 1..n}

\* the values of models: absent, repeated, and every list of at most n entries
ModelsValues(n) ==
  {Undefined, ArrayValue(MODELS[1])}
    \cup {StringValue(Join(entries, <<",">>)) : entries \in EntryLists(n)}

(***************************************************************************)
(* Specifications.                                                         *)
(***************************************************************************)
Idle ==
  /\ req = [r \in Requests |-> NoRequest]
  /\ pc = [r \in Requests |-> "idle"]
  /\ calls = [r \in Requests |-> <<>>]
  /\ responses = [r \in Requests |-> <<>>]

Init ==
  /\ Idle
  /\ modelId = <<>>
  /\ publisher = <<>>

\* one request, every input
Next ==
  \/ \E id \in PathIds, q \in QValues : ChatHandler(1, id, q)
  \/ \E q \in QValues, models \in ModelsValues(MaxList) : CompareHandler(1, q, models)
  \/ \E i \in 1..MaxList : FetchResolves(1, i)
  \/ \E i \in 1..MaxList : FetchRejects(1, i)
  \/ \E i \in 1..MaxList : TextResolves(1, i)
  \/ \E i \in 1..MaxList : TextRejects(1, i)
  \/ \E i \in 1..MaxList : JsonResolves(1, i)
  \/ \E i \in 1..MaxList : JsonRejects(1, i)
  \/ ChatResume(1)
  \/ CompareResume(1)

Spec == Init /\ [][Next]_vars

\* the requests of the concurrent specification: each route, valid and invalid
ConcurrentIds == {MODELS[1], S_UnknownModel}
ConcurrentQs == {Undefined, StringValue(S_Hi)}
ConcurrentModels ==
  {StringValue(Join(<<MODELS[1], MODELS[19]>>, <<",">>)),
   StringValue(Join(<<MODELS[1], S_UnknownModel>>, <<",">>))}

\* two requests in flight at once
NextConcurrent ==
  \/ \E r \in Requests, id \in ConcurrentIds, q \in ConcurrentQs : ChatHandler(r, id, q)
  \/ \E r \in Requests, q \in ConcurrentQs, models \in ConcurrentModels :
       CompareHandler(r, q, models)
  \/ \E r \in Requests, i \in 1..MaxList : FetchResolves(r, i)
  \/ \E r \in Requests, i \in 1..MaxList : FetchRejects(r, i)
  \/ \E r \in Requests, i \in 1..MaxList : TextResolves(r, i)
  \/ \E r \in Requests, i \in 1..MaxList : TextRejects(r, i)
  \/ \E r \in Requests, i \in 1..MaxList : JsonResolves(r, i)
  \/ \E r \in Requests, i \in 1..MaxList : JsonRejects(r, i)
  \/ \E r \in Requests : ChatResume(r)
  \/ \E r \in Requests : CompareResume(r)

SpecConcurrent == Init /\ [][NextConcurrent]_vars

\* the event loop runs a continuation whose awaited promise has settled
Fairness(R) == \A r \in R : WF_vars(ChatResume(r)) /\ WF_vars(CompareResume(r))

SpecFair == Spec /\ Fairness({1})

SpecConcurrentFair == SpecConcurrent /\ Fairness(Requests)

\* getPublisher on its own: every registry entry, every prefix of one, and an outsider
PublisherInputs ==
  UNION {{SubSeq(MODELS[i], 1, k) : k \in 0..Len(MODELS[i])} : i \in 1..Len(MODELS)}
    \cup {S_UnknownModel}

InitPublisher ==
  /\ Idle
  /\ modelId \in PublisherInputs
  /\ publisher = <<>>

Evaluate ==
  /\ publisher = <<>>
  /\ publisher' = <<getPublisher(modelId)>>
  /\ UNCHANGED <<req, pc, calls, responses, modelId>>

NextPublisher == Evaluate

SpecPublisher == InitPublisher /\ [][NextPublisher]_vars

(***************************************************************************)
(* Vocabulary of the properties, stated without the handlers' operators.   *)
(***************************************************************************)
InRegistry(id) == \E i \in 1..Len(MODELS) : MODELS[i] = id

\* the position of the k-th comma of str; 0 before the first, Len(str) + 1 after the last
CommaCount(str) == Cardinality({i \in 1..Len(str) : str[i] = ","})
NthComma(str, k) ==
  IF k = 0 THEN 0
  ELSE IF k > CommaCount(str) THEN Len(str) + 1
  ELSE CHOOSE i \in 1..Len(str) :
         str[i] = "," /\ Cardinality({j \in 1..i : str[j] = ","}) = k

\* str without the white space around it
Stripped(str) ==
  LET solid == {i \in 1..Len(str) : str[i] \notin WhiteSpace}
  IN IF solid = {} THEN <<>>
     ELSE SubSeq(str, CHOOSE i \in solid : \A j \in solid : i <= j,
                      CHOOSE i \in solid : \A j \in solid : j <= i)

\* the entries of a comma-separated list, in input order
Listed(str) ==
  [k \in 1..(CommaCount(str) + 1) |->
     Stripped(SubSeq(str, NthComma(str, k - 1) + 1, NthComma(str, k) - 1))]

IsText(v) == v.t = "string" /\ v.s # <<>>

Chat(r) == req[r].route = "chat"
Compare(r) == req[r].route = "compare"

\* request r is a compare request that passes validation
ValidCompare(r) ==
  /\ Compare(r)
  /\ IsText(req[r].q)
  /\ IsText(req[r].models)
  /\ \A k \in 1..Len(Listed(req[r].models.s)) : InRegistry(Listed(req[r].models.s)[k])

\* request r is a compare request whose models string lists an entry outside the registry
ListsUnknown(r) ==
  /\ Compare(r)
  /\ IsText(req[r].models)
  /\ \E k \in 1..Len(Listed(req[r].models.s)) : ~InRegistry(Listed(req[r].models.s)[k])

Answered(r) == responses[r] # <<>>

PrefixRules ==
  { [prefix |-> P_gpt, label |-> "OpenAI"], [prefix |-> P_MetaLlama, label |-> "Meta"],
    [prefix |-> P_Mistral, label |-> "Mistral"], [prefix |-> P_Phi, label |-> "Microsoft"],
    [prefix |-> P_Cohere, label |-> "Cohere"], [prefix |-> P_AI21, label |-> "AI21 Labs"],
    [prefix |-> P_Qwen, label |-> "Qwen"] }

Matching(id) ==
  {rule \in PrefixRules :
     Len(rule.prefix) <= Len(id) /\ \A i \in 1..Len(rule.prefix) : id[i] = rule.prefix[i]}

(***************************************************************************)
(* C8: getPublisher returns a value for every identifier (one of the seven *)
(* labels or Unknown); for each of the 24 registry entries exactly one of  *)
(* the seven prefix rules matches, and the result is that rule's label,    *)
(* never Unknown, so the order of the rules does not matter.               *)
(***************************************************************************)
C8_PublisherTotalAndUnique ==
  publisher # <<>> =>
    /\ publisher[1] \in {rule.label : rule \in PrefixRules} \cup {"Unknown"}
    /\ InRegistry(modelId) =>
         /\ Cardinality(Matching(modelId)) = 1
         /\ \A rule \in Matching(modelId) : publisher[1] = rule.label

C8_Witness == modelId = MODELS[19] /\ publisher = <<"Mistral">>

(***************************************************************************)
(* C1: a compare request that passes validation has made exactly one       *)
(* outbound call per entry of its list, the i-th call for the i-th entry,  *)
(* duplicates included; once it is answered, results has one entry per     *)
(* list entry and results[i].model is the i-th entry, whichever calls      *)
(* succeeded or failed.                                                    *)
(***************************************************************************)
C1_OneCallAndOneResultPerEntry ==
  \A r \in Requests :
    ValidCompare(r) =>
      LET listed == Listed(req[r].models.s) IN
      /\ Len(calls[r]) = Len(listed)
      /\ \A i \in 1..Len(listed) : calls[r][i].model = listed[i]
      /\ pc[r] = "done" =>
           /\ Len(responses[r]) = 1
           /\ Len(responses[r][1].body.results) = Len(listed)
           /\ \A i \in 1..Len(listed) : responses[r][1].body.results[i].model = listed[i]

\* the padded entry comes first, its call fails and the other succeeds
C1_Witness ==
  /\ ValidCompare(1)
  /\ pc[1] = "done"
  /\ Len(calls[1]) = 2
  /\ responses[1][1].body.results[1].model = MODELS[19]
  /\ "error" \in DOMAIN responses[1][1].body.results[1]
  /\ responses[1][1].body.results[2].model = MODELS[1]
  /\ "response" \in DOMAIN responses[1][1].body.results[2]

IsNotFound(response, id) ==
  /\ response.status = 404
  /\ response.body.error = S_ModelQuote \o id \o S_NotFound

IsInvalidModels(response) ==
  /\ response.status = 400
  /\ Len(response.body.error) >= Len(S_InvalidModels)
  /\ SubSeq(response.body.error, 1, Len(S_InvalidModels)) = S_InvalidModels

IsQueryRequired(response) ==
  /\ response.status = 400
  /\ response.body.error = S_QRequired

(***************************************************************************)
(* C2, as amended: a single-chat request whose path identifier is outside  *)
(* the registry is answered 404 "Model '...' not found" whatever q is, and *)
(* a compare request whose models string lists an entry outside the        *)
(* registry is answered 400: "Invalid models: ..." when q is a non-empty   *)
(* string, "Query parameter 'q' is required" otherwise.  Neither makes an  *)
(* outbound call.                                                          *)
(***************************************************************************)
C2_UnknownModelNeverCalled ==
  \A r \in Requests :
    /\ (Chat(r) /\ ~InRegistry(req[r].modelId)) =>
         /\ calls[r] = <<>>
         /\ Len(responses[r]) = 1
         /\ IsNotFound(responses[r][1], req[r].modelId)
    /\ ListsUnknown(r) =>
         /\ calls[r] = <<>>
         /\ Len(responses[r]) = 1
         /\ IF IsText(req[r].q)
            THEN IsInvalidModels(responses[r][1])
            ELSE IsQueryRequired(responses[r][1])

\* an unknown path identifier and no q at all
C2_Witness ==
  /\ Chat(1)
  /\ req[1].modelId = S_UnknownModel
  /\ req[1].q = Undefined
  /\ pc[1] = "done"
  /\ responses[1][1].status = 404

\* C2 as first stated: the invalid-model error whatever q is, for compare too
C2_AsStated ==
  \A r \in Requests :
    /\ (Chat(r) /\ ~InRegistry(req[r].modelId)) =>
         /\ calls[r] = <<>>
         /\ Len(responses[r]) = 1
         /\ IsNotFound(responses[r][1], req[r].modelId)
    /\ ListsUnknown(r) =>
         /\ calls[r] = <<>>
         /\ Len(responses[r]) = 1
         /\ IsInvalidModels(responses[r][1])

(***************************************************************************)
(* C3: a single-chat request naming a registered model, and any compare    *)
(* request, whose q is missing, empty or not a single string is answered   *)
(* 400 and makes no outbound call.                                         *)
(***************************************************************************)
C3_MissingQueryIs400 ==
  \A r \in Requests :
    ((Chat(r) /\ InRegistry(req[r].modelId)) \/ Compare(r)) /\ ~IsText(req[r].q) =>
      /\ calls[r] = <<>>
      /\ Len(responses[r]) = 1
      /\ responses[r][1].status = 400

\* q given twice (an array) to a registered model
C3_Witness ==
  /\ Chat(1)
  /\ req[1].modelId = MODELS[1]
  /\ req[1].q = ArrayValue(S_Hi)
  /\ pc[1] = "done"
  /\ responses[1][1].status = 400

(***************************************************************************)
(* C4: single-chat on a registered model with a non-empty q answers 500    *)
(* with the failure entry whenever the helper returned a failure entry     *)
(* (whatever its error text, the empty one included), and 200 with the     *)
(* success entry whenever it returned a success entry.                     *)
(***************************************************************************)
C4_FailureIs500SuccessIs200 ==
  \A r \in Requests :
    (Chat(r) /\ pc[r] = "done" /\ calls[r] # <<>> /\ calls[r][1].at = "returned") =>
      /\ Len(responses[r]) = 1
      /\ responses[r][1].body = calls[r][1].ret
      /\ "error" \in DOMAIN calls[r][1].ret => responses[r][1].status = 500
      /\ "response" \in DOMAIN calls[r][1].ret =>
           /\ responses[r][1].status = 200
           /\ DOMAIN responses[r][1].body = {"model", "response", "usage", "responseTime"}

(***************************************************************************)
(* C5: a compare request that passed validation is answered only once      *)
(* every one of its calls has returned; each entry of results is the       *)
(* outcome of its own call, and the status is 200 for every mix of         *)
(* successes and failures.                                                 *)
(***************************************************************************)
C5_JoinThen200 ==
  \A r \in Requests :
    (Compare(r) /\ calls[r] # <<>>) =>
      /\ Answered(r) => \A i \in 1..Len(calls[r]) : calls[r][i].at = "returned"
      /\ pc[r] = "done" =>
           /\ Len(responses[r]) = 1
           /\ responses[r][1].status = 200
           /\ responses[r][1].body.results = [i \in 1..Len(calls[r]) |-> calls[r][i].ret]

\* every call of a two-entry compare failed and the answer is still 200
C5_Witness ==
  /\ Compare(1)
  /\ pc[1] = "done"
  /\ Len(calls[1]) = 2
  /\ \A i \in 1..2 : "error" \in DOMAIN calls[1][i].ret
  /\ responses[1][1].status = 200

RECURSIVE Unknowns(_)
Unknowns(listed) ==
  IF listed = <<>> THEN <<>>
  ELSE IF InRegistry(Head(listed)) THEN Unknowns(Tail(listed))
  ELSE <<Head(listed)>> \o Unknowns(Tail(listed))

RECURSIVE CommaSeparated(_)
CommaSeparated(entries) ==
  IF Len(entries) = 1 THEN entries[1]
  ELSE entries[1] \o <<",", " ">> \o CommaSeparated(Tail(entries))

(***************************************************************************)
(* C6: a compare request with a non-empty string q and a non-empty models  *)
(* string is answered 400 exactly when some entry of its list is outside   *)
(* the registry, and the error then lists every such entry, each           *)
(* occurrence, in input order, and no registry entry.                      *)
(***************************************************************************)
C6_AllInvalidReported ==
  \A r \in Requests :
    (Compare(r) /\ IsText(req[r].q) /\ IsText(req[r].models)) =>
      LET unknown == Unknowns(Listed(req[r].models.s)) IN
      IF unknown # <<>>
      THEN /\ Len(responses[r]) = 1
           /\ responses[r][1].status = 400
           /\ responses[r][1].body.error = S_InvalidModels \o CommaSeparated(unknown)
      ELSE \A k \in 1..Len(responses[r]) : responses[r][k].status # 400

\* the same unknown entry twice
C6_Witness ==
  /\ Compare(1)
  /\ IsText(req[1].q)
  /\ req[1].models = StringValue(S_UnknownModel \o <<",">> \o S_UnknownModel)
  /\ responses[1][1].body.error =
       S_InvalidModels \o S_UnknownModel \o <<",", " ">> \o S_UnknownModel

(***************************************************************************)
(* C7: when the remote endpoint answered with a non-success status (the    *)
(* helper is reading the error body), the helper's next step returns an    *)
(* entry with exactly model, error and responseTime, no response and no    *)
(* usage; it does not throw, also when reading the body fails.             *)
(***************************************************************************)
C7_NonSuccessIsFailureEntry ==
  [][\A r \in Requests : \A i \in 1..Len(calls[r]) :
       (calls[r][i].at = "text" /\ calls'[r][i] # calls[r][i]) =>
         /\ calls'[r][i].at = "returned"
         /\ DOMAIN calls'[r][i].ret = {"model", "error", "responseTime"}
         /\ calls'[r][i].ret.model = calls[r][i].model]_vars

\* a returned entry carrying the raw error body of a non-success answer
C7_Witness ==
  /\ calls[1] # <<>>
  /\ calls[1][1].at = "returned"
  /\ "error" \in DOMAIN calls[1][1].ret
  /\ calls[1][1].ret.error = S_RateLimited

\* the body of r's answer is built from r's own calls
OwnOutcome(r) ==
  /\ Len(responses[r]) = 1
  /\ (Chat(r) /\ calls[r] # <<>>) => responses[r][1].body = calls[r][1].ret
  /\ (Compare(r) /\ calls[r] # <<>>) =>
       responses[r][1].body.results = [i \in 1..Len(calls[r]) |-> calls[r][i].ret]

SameInputsSameAnswer ==
  \A r1, r2 \in Requests :
    (pc[r1] = "done" /\ pc[r2] = "done" /\ req[r1] = req[r2] /\ calls[r1] = calls[r2]) =>
      responses[r1] = responses[r2]

\* while request 1 is suspended, request 2 can be accepted on either route
AcceptsWhileSuspended ==
  (pc[1] = "awaiting" /\ pc[2] = "idle") =>
    /\ ENABLED ChatHandler(2, MODELS[1], StringValue(S_Hi))
    /\ ENABLED CompareHandler(2, StringValue(S_Hi), StringValue(MODELS[1]))

AllReturned(r) ==
  /\ pc[r] = "awaiting"
  /\ \A i \in 1..Len(calls[r]) : calls[r][i].at = "returned"

(***************************************************************************)
(* C9: with two requests in flight, a request whose own calls have all     *)
(* returned is answered, and a new request is accepted, whatever the other *)
(* request is doing (suspended on a call that has not completed, failed,   *)
(* rejected by validation); the answer is made of the request's own        *)
(* parameters and the outcomes of its own calls only: two requests with    *)
(* the same parameters and the same outcomes get the same answer.          *)
(***************************************************************************)
C9_RequestsIndependent ==
  /\ [](\A r \in Requests : pc[r] = "done" => OwnOutcome(r))
  /\ []SameInputsSameAnswer
  /\ []AcceptsWhileSuspended
  /\ \A r \in Requests : AllReturned(r) ~> Answered(r)

\* request 1 still waits for its fetch; request 2 arrived after it, one of its own
\* calls failed, and it has been answered
C9_Witness ==
  /\ pc[1] = "awaiting"
  /\ calls[1][1].at = "fetch"
  /\ pc[2] = "done"
  /\ Compare(2)
  /\ Len(calls[2]) = 2
  /\ "error" \in DOMAIN calls[2][1].ret
  /\ "response" \in DOMAIN calls[2][2].ret
  /\ responses[2][1].status = 200

AtMostOneResponse == \A r \in Requests : Len(responses[r]) <= 1

RejectedWithoutWaiting ==
  \A r \in Requests :
    (pc[r] # "idle" /\ calls[r] = <<>>) => (pc[r] = "done" /\ Len(responses[r]) = 1)

NotAnsweredWhilePending ==
  \A r \in Requests :
    (\E i \in 1..Len(calls[r]) : Pending(calls[r][i])) => ~Answered(r)

NoRetryNoSecondAnswer ==
  \A r \in Requests :
    pc[r] # "idle" =>
      /\ Len(calls'[r]) = Len(calls[r])
      /\ Answered(r) => responses'[r] = responses[r]

(***************************************************************************)
(* C10: a request is answered at most once and its answer never changes; a *)
(* request that fails validation is answered in the handler's first run,   *)
(* with no call made; a request that passed validation makes no further    *)
(* call (no retry), is not answered while one of its calls is still        *)
(* pending (no timeout), and is answered once all of them have returned.   *)
(***************************************************************************)
C10_AnsweredOnceAfterAllCalls ==
  /\ []AtMostOneResponse
  /\ []RejectedWithoutWaiting
  /\ []NotAnsweredWhilePending
  /\ [][NoRetryNoSecondAnswer]_vars
  /\ \A r \in Requests : AllReturned(r) ~> (Len(responses[r]) = 1)

\* a two-entry compare, answered once, after both of its calls returned
C10_Witness ==
  /\ Compare(1)
  /\ Len(calls[1]) = 2
  /\ \A i \in 1..2 : calls[1][i].at = "returned"
  /\ pc[1] = "done"
  /\ Len(responses[1]) = 1

=============================================================================
